---- MODULE Spec2Model ----
(***************************************************************************)
(* Model of the warehouse server's two engines:                            *)
(*   - the location-quantity ledger (table item_cabinet_quantity) with the *)
(*     item create / set-quantity / position-transfer handlers;            *)
(*   - the category hierarchy (table category) with create / update /      *)
(*     delete handlers.                                                    *)
(* Every handler runs in one SQLAlchemy session created with               *)
(* autoflush=False (app/db/session.py): a query sees the committed rows;   *)
(* objects already loaded keep their in-memory attribute values; rows      *)
(* added with db.add are not visible to later queries of the same call;    *)
(* rows passed to db.delete are still returned by later queries.  The      *)
(* model keeps that session state explicitly.                              *)
(* Identifiers are compared by value: the str / UUID representation of an  *)
(* id (uuid_to_str) is not modelled.                                       *)
(***************************************************************************)
EXTENDS Integers, Sequences, FiniteSets, Bags, TLC

\* ---------------------------------------------------------------- bounds
MaxQty == 2
MaxLegs == 2
MaxEntries == 2

\* ------------------------------------------------------------ ledger data
NONE == "none"
Cabinets == {"A", "B"}
UnknownCabinet == "Z"
Locs == Cabinets \cup {NONE}
CabinetIds == Locs \cup {UnknownCabinet}
Items == {"X"}

\* parent_id / category_id NULL
NoParent == 0

VARIABLES items, itemCategory, ledger, categories, lastOp, txns

vars == <<items, itemCategory, ledger, categories, lastOp, txns>>

Row(i, c, q) == [item |-> i, cab |-> c, qty |-> q]

\* rows of item i at location c, as a set of distinct row values
RowsAt(db, i, c) == {r \in BagToSet(db) : r.item = i /\ r.cab = c}

RECURSIVE SumCopies(_, _)
SumCopies(db, S) ==
  IF S = {} THEN 0
  ELSE LET r == CHOOSE x \in S : TRUE
       IN CopiesIn(r, db) + SumCopies(db, S \ {r})

\* number of stored rows of item i at location c
CountAt(db, i, c) == SumCopies(db, RowsAt(db, i, c))

RECURSIVE SumQty(_, _)
SumQty(db, S) ==
  IF S = {} THEN 0
  ELSE LET r == CHOOSE x \in S : TRUE
       IN r.qty * CopiesIn(r, db) + SumQty(db, S \ {r})

totalQuantity(db, i) == SumQty(db, {r \in BagToSet(db) : r.item = i})

getQuantity(db, i, c) == SumQty(db, RowsAt(db, i, c))

OneBag(r) == SetToBag({r})

RECURSIVE SeqToBag(_)
SeqToBag(sq) ==
  IF sq = <<>> THEN EmptyBag ELSE OneBag(Head(sq)) (+) SeqToBag(Tail(sq))

\* ---------------------------------------------------- the ORM session
\* obj[c]  the committed row loaded for location c (NoRow when none)
\* mem[c]  the in-memory quantity of that loaded object
\* del     locations whose loaded object was passed to db.delete
\* pend    rows passed to db.add, in order
NoRow == [item |-> "-", cab |-> "-", qty |-> 0]

NewSession(objs) ==
  [obj  |-> objs,
   mem  |-> [c \in Locs |-> objs[c].qty],
   del  |-> {},
   pend |-> <<>>,
   err  |-> "ok"]

\* scalar_one_or_none() of the query for (item, location): the single row,
\* nothing, or MultipleResultsFound
QueryOne(db, i, c) ==
  IF CountAt(db, i, c) = 0 THEN "none"
  ELSE IF CountAt(db, i, c) = 1 THEN "one"
  ELSE "multiple"

TheRow(db, i, c) ==
  IF RowsAt(db, i, c) = {} THEN NoRow ELSE CHOOSE r \in RowsAt(db, i, c) : TRUE

PendingAt(s, c) == Len(SelectSeq(s.pend, LAMBDA r : r.cab = c))

\* UniqueConstraint('item_id','cabinet_id'): a NULL cabinet_id never
\* collides; the INSERTs of a flush run before its DELETEs
UniqueViolation(db, i, s) ==
  \E c \in Cabinets : PendingAt(s, c) > 0 /\ CountAt(db, i, c) + PendingAt(s, c) > 1

Touched(s) == {c \in Locs : s.obj[c] # NoRow /\ (c \in s.del \/ s.mem[c] # s.obj[c].qty)}

\* rows after the flush of commit(): pending rows inserted, dirty objects
\* updated, deleted objects removed (a deleted object is never updated)
Flush(db, i, s) ==
  LET gone    == SetToBag({s.obj[c] : c \in Touched(s)})
      updated == SetToBag({Row(i, c, s.mem[c]) : c \in Touched(s) \ s.del})
  IN ((db (-) gone) (+) updated) (+) SeqToBag(s.pend)

\* the response of the last call, until the client has taken it; requests
\* are served one at a time
NoOp == [op |-> "none", result |-> "none"]

\* the requests served at the same time, each in a session of its own
Txns == {"T1", "T2"}
NoTxn == [state |-> "idle"]

\* ------------------------------------------------- update_item_position
Leg(o, n, q, d) == [old |-> o, new |-> n, quantity |-> q, is_delete |-> d]

\* a delete-only leg may carry no quantity (0 here) or an amount; its
\* new_cabinet_id only matters for the cabinet lookup
LegInputs ==
  {l \in {Leg(o, n, q, FALSE) : o \in Locs, n \in Locs, q \in 1..MaxQty} : l.old # l.new}
  \cup {Leg(c, c, 1, FALSE) : c \in {"A", NONE}}
  \cup {Leg(UnknownCabinet, "A", 1, FALSE), Leg("A", UnknownCabinet, 1, FALSE)}
  \cup {Leg(o, NONE, 0, TRUE) : o \in CabinetIds}
  \cup {Leg(o, NONE, 1, TRUE) : o \in Locs}

BatchInputs == UNION {[1..n -> LegInputs] : n \in 1..MaxLegs}

\* PositionErrorCheck without the comparison of old_cabinet_id and new_cabinet_id
PositionErrorCheckNoSame(legs) ==
  /\ Len(legs) > 0
  /\ \A k \in 1..Len(legs) : ~legs[k].is_delete => legs[k].quantity >= 1

\* router _error_check of item_update_position
PositionErrorCheck(legs) ==
  /\ Len(legs) > 0
  /\ \A k \in 1..Len(legs) :
        ~legs[k].is_delete =>
          /\ legs[k].old # legs[k].new
          /\ legs[k].quantity >= 1

\* CabinetsVerified looking at the old_cabinet_id of each leg only
CabinetsVerifiedOldOnly(legs) ==
  \A k \in 1..Len(legs) : legs[k].old # NONE => legs[k].old \in Cabinets

\* every non-null old/new cabinet id is a cabinet of the household
CabinetsVerified(legs) ==
  \A k \in 1..Len(legs) :
    /\ legs[k].old # NONE => legs[k].old \in Cabinets
    /\ legs[k].new # NONE => legs[k].new \in Cabinets

\* ValidateLeg without the quantity comparison
ValidateLegNoQuantity(db, i, leg) ==
  IF QueryOne(db, i, leg.old) = "multiple" THEN "multiple_rows"
  ELSE IF ~leg.is_delete /\ QueryOne(db, i, leg.old) = "none" THEN "no_source"
  ELSE "ok"

\* ValidateLeg asking every leg, delete legs included, for its source row
ValidateLegNeedsSource(db, i, leg) ==
  IF QueryOne(db, i, leg.old) = "multiple" THEN "multiple_rows"
  ELSE IF QueryOne(db, i, leg.old) = "none" THEN "no_source"
  ELSE IF ~leg.is_delete /\ leg.quantity > TheRow(db, i, leg.old).qty THEN "insufficient"
  ELSE "ok"

\* the validation of one leg against the committed rows
ValidateLeg(db, i, leg) ==
  IF QueryOne(db, i, leg.old) = "multiple" THEN "multiple_rows"
  ELSE IF ~leg.is_delete /\ QueryOne(db, i, leg.old) = "none" THEN "no_source"
  ELSE IF ~leg.is_delete /\ leg.quantity > TheRow(db, i, leg.old).qty THEN "insufficient"
  ELSE "ok"

\* the validation loop: the first failing leg raises
RECURSIVE ValidateLegs(_, _, _, _)
ValidateLegs(db, i, legs, k) ==
  IF k > Len(legs) THEN "ok"
  ELSE IF ValidateLeg(db, i, legs[k]) # "ok" THEN ValidateLeg(db, i, legs[k])
  ELSE ValidateLegs(db, i, legs, k + 1)

\* the source side of one leg in the apply loop
TakeFromOld(s, leg, found) ==
  IF leg.is_delete
  THEN IF found THEN [s EXCEPT !.del = @ \cup {leg.old}] ELSE s
  ELSE IF s.mem[leg.old] = leg.quantity
       THEN [s EXCEPT !.del = @ \cup {leg.old}]
       ELSE [s EXCEPT !.mem[leg.old] = @ - leg.quantity]

\* the destination side of one non-delete leg in the apply loop
AddToNew(i, s, leg, found) ==
  IF found
  THEN [s EXCEPT !.mem[leg.new] = @ + leg.quantity]
  ELSE [s EXCEPT !.pend = Append(@, Row(i, leg.new, leg.quantity))]

ApplyLeg(db, i, s, leg) ==
  IF s.err # "ok" THEN s
  ELSE IF QueryOne(db, i, leg.old) = "multiple" THEN [s EXCEPT !.err = "multiple_rows"]
  ELSE LET s1 == TakeFromOld(s, leg, QueryOne(db, i, leg.old) = "one")
       IN IF leg.is_delete THEN s1
          ELSE IF QueryOne(db, i, leg.new) = "multiple"
               THEN [s1 EXCEPT !.err = "multiple_rows"]
               ELSE AddToNew(i, s1, leg, QueryOne(db, i, leg.new) = "one")

RECURSIVE ApplyLegs(_, _, _, _, _)
ApplyLegs(db, i, s, legs, k) ==
  IF k > Len(legs) THEN s
  ELSE ApplyLegs(db, i, ApplyLeg(db, i, s, legs[k]), legs, k + 1)

\* PositionOutcome done leg by leg: each leg is validated, applied and committed
\* before the next one is looked at
RECURSIVE LegByLeg(_, _, _, _)
LegByLeg(db, i, legs, k) ==
  IF k > Len(legs) THEN [result |-> "ok", rows |-> db]
  ELSE IF ValidateLeg(db, i, legs[k]) # "ok"
       THEN [result |-> ValidateLeg(db, i, legs[k]), rows |-> db]
  ELSE LET s == ApplyLeg(db, i, NewSession([c \in Locs |-> TheRow(db, i, c)]), legs[k])
       IN IF s.err # "ok" THEN [result |-> s.err, rows |-> db]
          ELSE LegByLeg(Flush(db, i, s), i, legs, k + 1)

PositionOutcomeLegByLeg(db, its, i, legs) ==
  IF ~PositionErrorCheck(legs) THEN [result |-> "bad_request", rows |-> db]
  ELSE IF i \notin its THEN [result |-> "no_item", rows |-> db]
  ELSE IF ~CabinetsVerified(legs) THEN [result |-> "no_cabinet", rows |-> db]
  ELSE LegByLeg(db, i, legs, 1)

\* the outcome of one update_item_position call: result code and the rows
\* committed (the rows before the call when anything raised)
PositionOutcome(db, its, i, legs) ==
  IF ~PositionErrorCheck(legs) THEN [result |-> "bad_request", rows |-> db]
  ELSE IF i \notin its THEN [result |-> "no_item", rows |-> db]
  ELSE IF ~CabinetsVerified(legs) THEN [result |-> "no_cabinet", rows |-> db]
  ELSE IF ValidateLegs(db, i, legs, 1) # "ok"
       THEN [result |-> ValidateLegs(db, i, legs, 1), rows |-> db]
  ELSE LET s == ApplyLegs(db, i, NewSession([c \in Locs |-> TheRow(db, i, c)]), legs, 1)
       IN IF s.err # "ok" THEN [result |-> s.err, rows |-> db]
          ELSE IF UniqueViolation(db, i, s) THEN [result |-> "integrity_error", rows |-> db]
          ELSE [result |-> "ok", rows |-> Flush(db, i, s)]

\* _gen_record_position: one record per leg of the request, in order; a
\* delete leg's record has no new cabinet and no count (0 here)
PositionRecord(leg) ==
  [kind |-> "position", old |-> leg.old,
   new |-> IF leg.is_delete THEN NONE ELSE leg.new,
   count |-> IF leg.is_delete THEN 0 ELSE leg.quantity]

PositionRecords(legs) == [k \in 1..Len(legs) |-> PositionRecord(legs[k])]

\* keeps the explored quantities finite
RowsBounded(db) == \A r \in BagToSet(db) : r.qty <= MaxQty + 1

UpdateItemPosition(i, legs) ==
  LET out == PositionOutcome(ledger, items, i, legs)
  IN /\ RowsBounded(out.rows)
     /\ ledger' = out.rows
     /\ lastOp' = [op |-> "position", item |-> i, legs |-> legs, result |-> out.result,
                    records |-> IF out.result = "ok" THEN PositionRecords(legs) ELSE <<>>,
                    before |-> ledger]
     /\ UNCHANGED <<items, itemCategory, categories, txns>>

\* ------------------------------------------------- update_item_quantity
Entry(c, q) == [cabinet_id |-> c, quantity |-> q]

EntryInputs == {Entry(c, q) : c \in CabinetIds, q \in (0 - 1)..MaxQty}

EntriesInputs == UNION {[1..n -> EntryInputs] : n \in 1..MaxEntries}

\* router _error_check of item_update_quantity
QuantityErrorCheck(entries) ==
  /\ Len(entries) > 0
  /\ \A k \in 1..Len(entries) : entries[k].quantity >= 0

\* SetEntry without the lookup of the entry's cabinet
SetEntryNoSkip(i, s, e) ==
  IF e.cabinet_id \in Locs /\ s.obj[e.cabinet_id] # NoRow
  THEN [s EXCEPT !.mem[e.cabinet_id] = e.quantity]
  ELSE [s EXCEPT !.pend = Append(@, Row(i, e.cabinet_id, e.quantity))]

\* one pass of the loop over request_model.cabinets
SetEntry(i, s, e) ==
  IF e.cabinet_id # NONE /\ e.cabinet_id \notin Cabinets THEN s
  ELSE IF s.obj[e.cabinet_id] # NoRow
       THEN [s EXCEPT !.mem[e.cabinet_id] = e.quantity]
       ELSE [s EXCEPT !.pend = Append(@, Row(i, e.cabinet_id, e.quantity))]

RECURSIVE SetEntries(_, _, _, _)
SetEntries(i, s, entries, k) ==
  IF k > Len(entries) THEN s
  ELSE SetEntries(i, SetEntry(i, s, entries[k]), entries, k + 1)

\* quantities_dict: one loaded row per cabinet_id key; when several rows
\* share the key the one that ends up in the dict is whichever the query
\* returned last
DictChoices(db, i, c) == IF RowsAt(db, i, c) = {} THEN {NoRow} ELSE RowsAt(db, i, c)

QuantitiesDicts(db, i) ==
  {[c \in Locs |-> IF c = NONE THEN n ELSE TheRow(db, i, c)] : n \in DictChoices(db, i, NONE)}

\* cabinet_quantity_changes and _gen_record_quantity: one record per entry
\* that was not skipped and whose quantity differs from the one loaded for
\* its cabinet_id (0 when no row was loaded)
OldQuantity(dict, c) == IF dict[c] = NoRow THEN 0 ELSE dict[c].qty

Recorded(dict, e) ==
  /\ e.cabinet_id = NONE \/ e.cabinet_id \in Cabinets
  /\ OldQuantity(dict, e.cabinet_id) # e.quantity

QuantityRecord(dict, e) ==
  [kind |-> "quantity", old |-> e.cabinet_id, new |-> e.cabinet_id,
   count_old |-> OldQuantity(dict, e.cabinet_id), count |-> e.quantity]

RECURSIVE QuantityRecords(_, _, _)
QuantityRecords(dict, entries, k) ==
  IF k > Len(entries) THEN <<>>
  ELSE IF Recorded(dict, entries[k])
       THEN <<QuantityRecord(dict, entries[k])>> \o QuantityRecords(dict, entries, k + 1)
       ELSE QuantityRecords(dict, entries, k + 1)

QuantityOutcome(db, its, i, entries, dict) ==
  IF ~QuantityErrorCheck(entries) THEN [result |-> "bad_request", rows |-> db]
  ELSE IF i \notin its THEN [result |-> "no_item", rows |-> db]
  ELSE LET s == SetEntries(i, NewSession(dict), entries, 1)
       IN IF UniqueViolation(db, i, s) THEN [result |-> "integrity_error", rows |-> db]
          ELSE [result |-> "ok", rows |-> Flush(db, i, s)]

UpdateItemQuantity(i, entries) ==
  \E dict \in QuantitiesDicts(ledger, i) :
    LET out == QuantityOutcome(ledger, items, i, entries, dict)
    IN /\ ledger' = out.rows
       /\ lastOp' = [op |-> "quantity", item |-> i, entries |-> entries,
                      result |-> out.result,
                      records |-> IF out.result = "ok"
                                  THEN QuantityRecords(dict, entries, 1) ELSE <<>>,
                      before |-> ledger]
       /\ UNCHANGED <<items, itemCategory, categories, txns>>

\* --------------------------------------------------------- create_item
\* router _error_check of item_create (quantity and cabinet checks)
CreateErrorCheck(c, q) == q >= 0 /\ (c # NONE => c \in Cabinets)

CreateOutcome(db, i, c, q) ==
  IF ~CreateErrorCheck(c, q) THEN [result |-> "bad_request", rows |-> db]
  ELSE [result |-> "ok", rows |-> db (+) OneBag(Row(i, c, IF q > 0 THEN q ELSE 0))]

\* ForeignKey("category.id") of item.category_id: the INSERT of an item whose
\* category_id names no category row fails
CategoryKnown(cats, cat) == cat = NoParent \/ cat \in DOMAIN cats

\* create_item with a category_id (NoParent: none given)
CreateItemIn(i, c, q, cat) ==
  LET made == CreateOutcome(ledger, i, c, q)
      out == IF made.result = "ok" /\ ~CategoryKnown(categories, cat)
             THEN [result |-> "integrity_error", rows |-> ledger] ELSE made
  IN /\ i \notin items
     /\ ledger' = out.rows
     /\ items' = IF out.result = "ok" THEN items \cup {i} ELSE items
     /\ itemCategory' = IF out.result = "ok"
                         THEN [j \in items \cup {i} |-> IF j = i THEN cat ELSE itemCategory[j]]
                         ELSE itemCategory
     /\ lastOp' = [op |-> "create", item |-> i, cabinet_id |-> c, quantity |-> q,
                    result |-> out.result, before |-> ledger]
     /\ UNCHANGED <<categories, txns>>

\* create_item without a category_id
CreateItem(i, c, q) == CreateItemIn(i, c, q, NoParent)

\* WithoutItem removing the rows that have a cabinet only
WithoutItemInCabinets(db, i) ==
  db (-) [r \in {x \in BagToSet(db) : x.item = i /\ x.cab # NONE} |-> db[r]]

\* --------------------------------------------------------- delete_item
\* ForeignKey("item.id", ondelete="CASCADE") of item_cabinet_quantity.item_id:
\* the rows of a deleted item go with it
WithoutItem(db, i) == db (-) [r \in {x \in BagToSet(db) : x.item = i} |-> db[r]]

DeleteItem(i) ==
  /\ IF i \in items
     THEN /\ items' = items \ {i}
          /\ itemCategory' = [j \in items \ {i} |-> itemCategory[j]]
          /\ ledger' = WithoutItem(ledger, i)
     ELSE UNCHANGED <<items, itemCategory, ledger>>
  /\ lastOp' = [op |-> "item_delete", item |-> i,
                 result |-> IF i \in items THEN "ok" ELSE "no_item", before |-> ledger]
  /\ UNCHANGED <<categories, txns>>

\* ------------------------------------- update_item_position, concurrent
\* Two requests served at the same time.  Each runs in a session and a
\* transaction of its own (get_db); the engine sets no isolation level and
\* no query uses with_for_update, so the SELECTs are plain reads.  The
\* handler's queries run when the request begins; its UPDATE / INSERT /
\* DELETE statements are sent by the flush of db.commit().

\* what update_item_position does up to, not including, db.commit()
PositionPrepare(db, its, i, legs) ==
  IF ~PositionErrorCheck(legs) THEN [result |-> "bad_request", s |-> NewSession([c \in Locs |-> NoRow])]
  ELSE IF i \notin its THEN [result |-> "no_item", s |-> NewSession([c \in Locs |-> NoRow])]
  ELSE IF ~CabinetsVerified(legs) THEN [result |-> "no_cabinet", s |-> NewSession([c \in Locs |-> NoRow])]
  ELSE IF ValidateLegs(db, i, legs, 1) # "ok"
       THEN [result |-> ValidateLegs(db, i, legs, 1), s |-> NewSession([c \in Locs |-> NoRow])]
  ELSE LET s == ApplyLegs(db, i, NewSession([c \in Locs |-> TheRow(db, i, c)]), legs, 1)
       IN [result |-> s.err, s |-> s]

TxnDone(tx, r) ==
  [state |-> "done", item |-> tx.item, legs |-> tx.legs, base |-> tx.base, result |-> r]

\* the request is read and its queries run against the committed rows
BeginTransfer(t, i, legs) ==
  LET out == PositionPrepare(ledger, items, i, legs)
      tx  == [state |-> "open", item |-> i, legs |-> legs, base |-> ledger,
              s |-> out.s, cur |-> out.s.obj, stale |-> {}]
  IN /\ txns[t] = NoTxn
     /\ \A u \in Txns : txns[u].state # "done"
     /\ txns' = [txns EXCEPT ![t] = IF out.result = "ok" THEN tx ELSE TxnDone(tx, out.result)]
     /\ UNCHANGED <<items, itemCategory, ledger, categories, lastOp>>

\* the rows the flush writes: UPDATE and DELETE go by primary key to the
\* row as it is now; a DELETE that matches no row only warns
CommitRows(db, tx) ==
  LET live    == Touched(tx.s) \ tx.stale
      gone    == SetToBag({tx.cur[c] : c \in live})
      updated == SetToBag({Row(tx.item, c, tx.s.mem[c]) : c \in live \ tx.s.del})
  IN ((db (-) gone) (+) updated) (+) SeqToBag(tx.s.pend)

\* an UPDATE that matches no row raises StaleDataError; an INSERT that
\* collides raises IntegrityError; either way get_db rolls back
CommitResult(db, tx) ==
  IF (Touched(tx.s) \ tx.s.del) \cap tx.stale # {} THEN "stale_data"
  ELSE IF UniqueViolation(db, tx.item, tx.s) THEN "integrity_error"
  ELSE "ok"

\* what the commit of tx means for another open session: a row it loaded
\* is gone, or has a new value in the table (its own copy stays as loaded)
Overtaken(u, tx) ==
  IF u.state # "open" THEN u
  ELSE LET mine == {c \in Locs : u.s.obj[c] # NoRow /\ c \notin u.stale}
           hit  == mine \cap (Touched(tx.s) \ tx.stale)
       IN [u EXCEPT !.stale = @ \cup (hit \cap tx.s.del),
                    !.cur = [c \in Locs |-> IF c \in hit \ tx.s.del
                                            THEN Row(tx.item, c, tx.s.mem[c])
                                            ELSE u.cur[c]]]

CommitTransfer(t) ==
  LET tx == txns[t]
      r  == CommitResult(ledger, tx)
  IN /\ tx.state = "open"
     /\ ledger' = IF r = "ok" THEN CommitRows(ledger, tx) ELSE ledger
     /\ RowsBounded(ledger')
     /\ txns' = [u \in Txns |-> IF u = t THEN TxnDone(tx, r)
                                ELSE IF r = "ok" THEN Overtaken(txns[u], tx)
                                ELSE txns[u]]
     /\ UNCHANGED <<items, itemCategory, categories, lastOp>>

\* the responses are returned and the sessions closed
Settle ==
  /\ \A t \in Txns : txns[t].state # "open"
  /\ \E t \in Txns : txns[t].state = "done"
  /\ txns' = [t \in Txns |-> NoTxn]
  /\ UNCHANGED <<items, itemCategory, ledger, categories, lastOp>>

\* ------------------------------------------------------ delete_cabinet
\* DeleteCabinetRequestModel (schemas/cabinet_request.py) has the fields
\* household_id, cabinet_id, id and user_name; delete_cabinet starts by
\* reading request_model.cabinets, which the model does not have, so the
\* call raises before any query and router_exception_handler answers with
\* an error
DeleteCabinetOutcome(db, c) == [result |-> "internal_error", rows |-> db]

DeleteCabinet(c) ==
  LET out == DeleteCabinetOutcome(ledger, c)
  IN /\ ledger' = out.rows
     /\ lastOp' = [op |-> "cabinet_delete", cabinet_id |-> c, result |-> out.result,
                    before |-> ledger]
     /\ UNCHANGED <<items, itemCategory, categories, txns>>

\* =================================================== category hierarchy
\* The category table as the services use it: id, household_id, name,
\* parent_id.  A category's level is the length of its ancestor chain
\* (get_level_names); the handlers below never write a level column.
\* The handlers are the ones app/routers/__init__.py mounts under
\* /category: create (services/category_service), update and delete
\* (services/category/...).
MAX_LEVEL_NUM == 3
MaxCats == 4
CatIds == 1..MaxCats
Households == {"H1"}
RawNames == {"a", "b", " a"}
BlankName == " "

\* str.strip() on the modelled names
Strip(n) == IF n = " a" THEN "a" ELSE IF n = BlankName THEN "" ELSE n

Category(h, n, p) == [household |-> h, name |-> n, parent |-> p]

Children(cats, id) == {c \in DOMAIN cats : cats[c].parent = id}

\* get_level_names: the names from the root down to category_id; raises
\* when category_id is not a row or the chain revisits a row
RECURSIVE LevelNamesUp(_, _, _, _)
LevelNamesUp(cats, id, visited, acc) ==
  IF id \in visited THEN [ok |-> FALSE, names |-> <<>>]
  ELSE LET names == <<cats[id].name>> \o acc
       IN IF cats[id].parent = NoParent \/ cats[id].parent \notin DOMAIN cats
          THEN [ok |-> TRUE, names |-> names]
          ELSE LevelNamesUp(cats, cats[id].parent, visited \cup {id}, names)

get_level_names(cats, id) ==
  IF id = NoParent THEN [ok |-> TRUE, names |-> <<>>]
  ELSE IF id \notin DOMAIN cats THEN [ok |-> FALSE, names |-> <<>>]
  ELSE LevelNamesUp(cats, id, {}, <<>>)

\* the rows reached from id through parent_id in at most n steps
RECURSIVE Below(_, _, _)
Below(cats, ids, n) ==
  IF n = 0 THEN {}
  ELSE LET kids == UNION {Children(cats, c) : c \in ids}
       IN kids \cup Below(cats, kids, n - 1)

\* _get_all_descendant_ids: children, grandchildren, ... of category_id
\* (the recursion visits a row once per path to it)
_get_all_descendant_ids(cats, id) == Below(cats, {id}, Cardinality(DOMAIN cats))

\* _check_children_level_recursive
RECURSIVE MaxOf(_)
MaxOf(S) == IF S = {} THEN 0
            ELSE LET x == CHOOSE y \in S : TRUE
                     m == MaxOf(S \ {x})
                 IN IF x > m THEN x ELSE m

RECURSIVE _check_children_level_recursive(_, _, _)
_check_children_level_recursive(cats, id, current_level) ==
  IF current_level >= MAX_LEVEL_NUM THEN MAX_LEVEL_NUM
  ELSE IF Children(cats, id) = {} THEN current_level
  ELSE MaxOf({_check_children_level_recursive(cats, c, current_level + 1) :
                c \in Children(cats, id)})

_get_children_max_level_num(cats, id) ==
  IF id \notin DOMAIN cats THEN 0 ELSE _check_children_level_recursive(cats, id, 1)

\* the rows the duplicate query selects: same household, same name, same
\* parent_id (IS NULL for no parent)
DuplicateRows(cats, h, n, p) ==
  {c \in DOMAIN cats : cats[c].household = h /\ cats[c].name = n /\ cats[c].parent = p}

\* _check_duplicate_category_name: scalar_one_or_none() over the rows
\* above raises on two or more rows as well
_check_duplicate_category_name(cats, h, n, p) ==
  IF DuplicateRows(cats, h, n, p) = {} THEN "ok"
  ELSE IF Cardinality(DuplicateRows(cats, h, n, p)) = 1 THEN "duplicate_name"
  ELSE "multiple_rows"

\* AncestorWalk with the household left out of the parent query
RECURSIVE AncestorWalkAnyHousehold(_, _, _, _)
AncestorWalkAnyHousehold(cats, h, id, n) ==
  IF id \notin DOMAIN cats THEN [diverges |-> FALSE, ids |-> {}]
  ELSE IF n = 0 THEN [diverges |-> TRUE, ids |-> {}]
  ELSE IF cats[id].parent = NoParent THEN [diverges |-> FALSE, ids |-> {id}]
  ELSE LET up == AncestorWalkAnyHousehold(cats, h, cats[id].parent, n - 1)
       IN [diverges |-> up.diverges, ids |-> {id} \cup up.ids]

\* _get_ancestor_categories: the category and the chain of its parents
\* inside its household; the loop has no cycle guard, so on a parent
\* cycle it does not return
RECURSIVE AncestorWalk(_, _, _, _)
AncestorWalk(cats, h, id, n) ==
  IF id \notin DOMAIN cats \/ cats[id].household # h THEN [diverges |-> FALSE, ids |-> {}]
  ELSE IF n = 0 THEN [diverges |-> TRUE, ids |-> {}]
  ELSE IF cats[id].parent = NoParent THEN [diverges |-> FALSE, ids |-> {id}]
  ELSE LET up == AncestorWalk(cats, h, cats[id].parent, n - 1)
       IN [diverges |-> up.diverges, ids |-> {id} \cup up.ids]

\* read_category for one id: build_category_tree keeps the rows without a
\* parent; the routers fail when the answer is empty
read_category(cats, h, id) ==
  LET walk == AncestorWalk(cats, h, id, Cardinality(DOMAIN cats))
  IN [diverges |-> walk.diverges,
      roots |-> {c \in walk.ids : cats[c].parent = NoParent}]

\* what the router makes of the re-read after the service returned
AfterRead(cats, new, h, id, done) ==
  IF read_category(new, h, id).diverges THEN [result |-> "no_response", cats |-> cats]
  ELSE IF read_category(new, h, id).roots = {} THEN [result |-> "empty_response", cats |-> cats]
  ELSE [result |-> done, cats |-> new]

\* get_level_names of category_service (used by create_category): the same
\* walk without the visited set, so it does not return on a parent cycle
RECURSIVE LevelNamesWalk(_, _, _, _)
LevelNamesWalk(cats, id, acc, n) ==
  IF n = 0 THEN [ok |-> FALSE, names |-> <<>>]
  ELSE LET names == <<cats[id].name>> \o acc
       IN IF cats[id].parent = NoParent \/ cats[id].parent \notin DOMAIN cats
          THEN [ok |-> TRUE, names |-> names]
          ELSE LevelNamesWalk(cats, cats[id].parent, names, n - 1)

get_level_names_create(cats, id) ==
  IF id = NoParent THEN [ok |-> TRUE, names |-> <<>>]
  ELSE IF id \notin DOMAIN cats THEN [ok |-> FALSE, names |-> <<>>]
  ELSE LevelNamesWalk(cats, id, <<>>, Cardinality(DOMAIN cats))

\* ----------------------------------------------------- create_category
\* the primary key of the new row
NewId(cats) == CHOOSE id \in CatIds \ DOMAIN cats :
                 \A other \in CatIds \ DOMAIN cats : id <= other

Insert(cats, id, row) == [c \in DOMAIN cats \cup {id} |-> IF c = id THEN row ELSE cats[c]]

CategoryResult(r, cats) == [result |-> r, cats |-> cats]

\* create_category without the level check
CreateLevelOkAlways(level_name) == TRUE

\* len(level_name) > MAX_LEVEL_NUM raises
CreateLevelOk(level_name) == Len(level_name) <= MAX_LEVEL_NUM

create_category(cats, h, n, p) ==
  LET parents == get_level_names_create(cats, p)
      level_name == Append(parents.names, n)
      dup == _check_duplicate_category_name(cats, h, n, p)
      new == Insert(cats, NewId(cats), Category(h, n, p))
  IN IF ~parents.ok THEN CategoryResult("parent_not_found", cats)
     ELSE IF ~CreateLevelOk(level_name) THEN CategoryResult("level_exceeded", cats)
     ELSE IF dup # "ok" THEN CategoryResult(dup, cats)
     ELSE AfterRead(cats, new, h, NewId(cats), "ok")

CreateCategory(h, n, p) ==
  LET out == create_category(categories, h, n, p)
  IN /\ DOMAIN categories # CatIds
     /\ categories' = out.cats
     /\ lastOp' = [op |-> "category_create", household |-> h, name |-> n, parent |-> p,
                    id |-> NewId(categories), result |-> out.result, before |-> categories]
     /\ UNCHANGED <<items, itemCategory, ledger, txns>>

\* ----------------------------------------------------- update_category
\* an optional request field: <<>> when absent, <<v>> when given
Absent == <<>>
Given(v) == <<v>>

\* the comparison of parent_id with category_id left out
SameCategoryNever(p, id) == FALSE

\* parent_id == category_id, as the router and the service compare them
SameCategory(p, id) == p = id

\* router _error_check of category_update
UpdateErrorCheck(id, name, parent) ==
  /\ name # Absent => Strip(name[1]) # ""
  /\ (parent # Absent /\ parent[1] # NoParent) => ~SameCategory(parent[1], id)

\* update_category without the level check
LevelFitsAlways(category_level_num, parent_level_num) == TRUE

\* category_level_num + len(new_level_name) may not exceed MAX_LEVEL_NUM
LevelFits(category_level_num, parent_level_num) ==
  category_level_num + parent_level_num <= MAX_LEVEL_NUM

\* the name the row carries after the name handling
NewName(cats, id, name) ==
  IF name # Absent /\ Strip(name[1]) # cats[id].name THEN Strip(name[1]) ELSE cats[id].name

\* the branch that sets a parent: the checks in the order of the code
SetParent(cats, h, id, new_name, p) ==
  LET dup == _check_duplicate_category_name(cats, h, new_name, p)
  IN IF p = NoParent THEN "bad_request"
     ELSE IF SameCategory(p, id) THEN "self_parent"
     ELSE IF p \in _get_all_descendant_ids(cats, id) THEN "descendant_parent"
     ELSE IF ~get_level_names(cats, p).ok THEN "parent_not_found"
     ELSE IF ~LevelFits(_get_children_max_level_num(cats, id),
                        Len(get_level_names(cats, p).names)) THEN "level_exceeded"
     ELSE dup

update_category(cats, h, id, name, parent) ==
  IF id \notin DOMAIN cats \/ cats[id].household # h THEN CategoryResult("not_found", cats)
  ELSE IF ~get_level_names(cats, cats[id].parent).ok
       THEN CategoryResult("parent_not_found", cats)
  ELSE IF name # Absent /\ Strip(name[1]) = "" THEN CategoryResult("bad_request", cats)
  ELSE LET new_name == NewName(cats, id, name)
           renamed == [cats EXCEPT ![id].name = new_name]
       IN IF parent = Absent
          THEN IF new_name = cats[id].name THEN CategoryResult("unchanged", cats)
               ELSE CategoryResult("ok", renamed)
          ELSE IF parent[1] = NoParent /\ cats[id].parent # NoParent
          THEN CategoryResult("ok", [renamed EXCEPT ![id].parent = NoParent])
          ELSE IF SetParent(cats, h, id, new_name, parent[1]) # "ok"
          THEN CategoryResult(SetParent(cats, h, id, new_name, parent[1]), cats)
          ELSE CategoryResult("ok", [renamed EXCEPT ![id].parent = parent[1]])

\* the router: _error_check, the service, then the re-read of the category
UpdateCategoryOutcome(cats, h, id, name, parent) ==
  LET out == update_category(cats, h, id, name, parent)
  IN IF ~UpdateErrorCheck(id, name, parent) THEN CategoryResult("bad_request", cats)
     ELSE IF out.result \notin {"ok", "unchanged"} THEN out
     ELSE AfterRead(cats, out.cats, h, id, out.result)

UpdateCategory(h, id, name, parent) ==
  LET out == UpdateCategoryOutcome(categories, h, id, name, parent)
  IN /\ categories' = out.cats
     /\ lastOp' = [op |-> "category_update", household |-> h, id |-> id, name |-> name,
                    parent |-> parent, result |-> out.result, before |-> categories]
     /\ UNCHANGED <<items, itemCategory, ledger, txns>>

\* ------------------------------------------ update_category, concurrent
\* Two reparent requests served at the same time, each in its own session.
\* update_category reads with plain SELECTs, sets category.parent_id and
\* flushes (the UPDATE of that one row); the router re-reads the category
\* in the same transaction and get_db commits when the request ends.  No
\* query locks the rows it reads.

\* the request runs up to its response, against the committed rows; a
\* request for a row that an open transaction has updated waits for it
BeginReparent(t, h, id, p) ==
  LET out == UpdateCategoryOutcome(categories, h, id, Absent, Given(p))
      tx  == [state |-> IF out.result = "ok" THEN "open" ELSE "done",
              id |-> id, parent |-> p, result |-> out.result]
  IN /\ txns[t] = NoTxn
     /\ \A u \in Txns : txns[u].state # "done"
     /\ \A u \in Txns : txns[u].state = "open" => txns[u].id # id
     /\ txns' = [txns EXCEPT ![t] = tx]
     /\ UNCHANGED <<items, itemCategory, ledger, categories, lastOp>>

\* get_db commits: the UPDATE of the one row becomes visible
CommitReparent(t) ==
  /\ txns[t].state = "open"
  /\ categories' = [categories EXCEPT ![txns[t].id].parent = txns[t].parent]
  /\ txns' = [txns EXCEPT ![t].state = "done"]
  /\ UNCHANGED <<items, itemCategory, ledger, lastOp>>

\* ----------------------------------------------------- delete_category
\* the enumeration without category_id itself
DescendantsOnly(cats, id) == _get_all_descendant_ids(cats, id)

\* _get_children_ids: category_id itself and everything below it
_get_children_ids(cats, id) == {id} \cup _get_all_descendant_ids(cats, id)

\* ON DELETE CASCADE of category.parent_id: a row goes with its parent
RECURSIVE Cascade(_, _)
Cascade(cats, gone) ==
  LET more == {c \in DOMAIN cats \ gone : cats[c].parent \in gone}
  IN IF more = {} THEN gone ELSE Cascade(cats, gone \cup more)

Remove(cats, ids) == [c \in DOMAIN cats \ Cascade(cats, ids) |-> cats[c]]

delete_category(cats, h, id) ==
  IF id \notin DOMAIN cats \/ cats[id].household # h THEN CategoryResult("not_found", cats)
  ELSE CategoryResult("ok", Remove(cats, _get_children_ids(cats, id) \cap DOMAIN cats))

\* ClearReferences leaving every reference as it is
KeepReferences(refs, cats) == refs

\* ForeignKey("category.id", ondelete="SET NULL") of item.category_id: the
\* items that referenced a deleted row reference none
ClearReferences(refs, cats) ==
  [i \in DOMAIN refs |-> IF refs[i] \in DOMAIN cats THEN refs[i] ELSE NoParent]

DeleteCategory(h, id) ==
  LET out == delete_category(categories, h, id)
  IN /\ categories' = out.cats
     /\ itemCategory' = ClearReferences(itemCategory, out.cats)
     /\ lastOp' = [op |-> "category_delete", household |-> h, id |-> id,
                    result |-> out.result, before |-> categories,
                    referenced |-> itemCategory]
     /\ UNCHANGED <<items, ledger, txns>>

\* ------------------------------------------ the two commits of a request
\* update_item_position and update_item_quantity call db.commit() themselves
\* and add their records afterwards; the records are flushed by the handler
\* and committed by get_db when the request ends.  Between the two commits
\* the request is "committed": the ledger rows are durable, the records not.

\* update_item_position through its db.commit()
CommitPosition(i, legs) ==
  LET out == PositionOutcome(ledger, items, i, legs)
  IN /\ RowsBounded(out.rows)
     /\ ledger' = out.rows
     /\ lastOp' = [op |-> "position", item |-> i, legs |-> legs,
                    result |-> IF out.result = "ok" THEN "committed" ELSE out.result,
                    records |-> <<>>,
                    pending |-> IF out.result = "ok" THEN PositionRecords(legs) ELSE <<>>,
                    before |-> ledger]
     /\ UNCHANGED <<items, itemCategory, categories, txns>>

\* update_item_quantity through its db.commit()
CommitQuantity(i, entries) ==
  \E dict \in QuantitiesDicts(ledger, i) :
    LET out == QuantityOutcome(ledger, items, i, entries, dict)
    IN /\ ledger' = out.rows
       /\ lastOp' = [op |-> "quantity", item |-> i, entries |-> entries,
                      result |-> IF out.result = "ok" THEN "committed" ELSE out.result,
                      records |-> <<>>,
                      pending |-> IF out.result = "ok"
                                  THEN QuantityRecords(dict, entries, 1) ELSE <<>>,
                      before |-> ledger]
       /\ UNCHANGED <<items, itemCategory, categories, txns>>

InRecording == lastOp.result = "committed"

\* the records are added and flushed, the handler returns and get_db commits
WriteRecords ==
  /\ InRecording
  /\ lastOp' = [lastOp EXCEPT !.result = "ok", !.records = lastOp.pending]
  /\ UNCHANGED <<items, itemCategory, ledger, categories, txns>>

\* a statement after db.commit() raises (build_item_response or the flush of
\* the records): router_exception_handler rolls the open transaction back and
\* answers with an error; the rows committed before stay
RecordsFail ==
  /\ InRecording
  /\ lastOp' = [lastOp EXCEPT !.result = "internal_error"]
  /\ UNCHANGED <<items, itemCategory, ledger, categories, txns>>

\* ----------------------------------- the descendant enumeration, by steps
\* collect_descendants of _get_all_descendant_ids and match_children of
\* _get_children_ids are the same recursion: query the rows whose parent_id
\* is the current id, and for each of them append it and recurse.  Neither
\* keeps a set of visited ids.  The walk is kept in lastOp: one frame per
\* active call, holding the children that call still has to visit.

\* the nesting the interpreter allows before it raises RecursionError
RecursionLimit == 4

\* the category stores the enumeration is run on: any parent_id values,
\* cycles included
MaxStore == 3
Stores ==
  UNION {[1..n -> [household : Households, name : {"a"}, parent : 0..n]] : n \in 1..MaxStore}

\* the call on category id starts; with_self is match_children, which
\* appends the id it is called with
WalkStart(id, with_self) ==
  [op |-> "descendants", result |-> "running", id |-> id,
   frames |-> <<Children(categories, id)>>,
   found |-> IF with_self THEN <<id>> ELSE <<>>]

Walking == lastOp.op = "descendants" /\ lastOp.result = "running"

\* the innermost call takes its next child: appends it and calls itself on
\* it, which raises when the nesting is at the limit
Descend ==
  /\ Walking
  /\ \E c \in lastOp.frames[Len(lastOp.frames)] :
       lastOp' =
         IF Len(lastOp.frames) >= RecursionLimit
         THEN [lastOp EXCEPT !.result = "recursion_error"]
         ELSE [lastOp EXCEPT
                 !.found = Append(@, c),
                 !.frames = Append([@ EXCEPT ![Len(@)] = @ \ {c}], Children(categories, c))]
  /\ UNCHANGED <<items, itemCategory, ledger, categories, txns>>

\* the innermost call has no child left and returns; the outermost one
\* returns the ids
Return ==
  /\ Walking
  /\ lastOp.frames[Len(lastOp.frames)] = {}
  /\ lastOp' = IF Len(lastOp.frames) = 1
               THEN [lastOp EXCEPT !.result = "returned", !.frames = <<>>]
               ELSE [lastOp EXCEPT !.frames = SubSeq(@, 1, Len(@) - 1)]
  /\ UNCHANGED <<items, itemCategory, ledger, categories, txns>>

\* ====================================================== specifications
Init ==
  /\ items = {}
  /\ itemCategory = <<>>
  /\ ledger = EmptyBag
  /\ categories = <<>>
  /\ lastOp = NoOp
  /\ txns = [t \in Txns |-> NoTxn]

\* the response is returned and the request's session is closed
Respond ==
  /\ lastOp # NoOp
  /\ lastOp' = NoOp
  /\ UNCHANGED <<items, itemCategory, ledger, categories, txns>>

\* no call is being answered: the next request can be served
Idle == lastOp = NoOp

LedgerNext ==
  \/ Respond
  \/ Idle /\ \E i \in Items, c \in CabinetIds, q \in (0 - 1)..MaxQty : CreateItem(i, c, q)
  \/ Idle /\ \E i \in Items, entries \in EntriesInputs : UpdateItemQuantity(i, entries)
  \/ Idle /\ \E i \in Items, legs \in BatchInputs : UpdateItemPosition(i, legs)
  \/ Idle /\ \E c \in CabinetIds \ {NONE} : DeleteCabinet(c)

Spec == Init /\ [][LedgerNext]_vars

TransferInputs == {<<l>> : l \in LegInputs}

ConcurrentNext ==
  \/ Respond
  \/ Idle /\ \E i \in Items, c \in CabinetIds, q \in (0 - 1)..MaxQty : CreateItem(i, c, q)
  \/ Idle /\ \E t \in Txns, i \in Items, legs \in TransferInputs : BeginTransfer(t, i, legs)
  \/ \E t \in Txns : CommitTransfer(t)
  \/ Settle

ConcurrentSpec == Init /\ [][ConcurrentNext]_vars

RecordNext ==
  \/ ~InRecording /\ Respond
  \/ Idle /\ \E i \in Items, c \in CabinetIds, q \in (0 - 1)..MaxQty : CreateItem(i, c, q)
  \/ Idle /\ \E i \in Items, entries \in EntriesInputs : CommitQuantity(i, entries)
  \/ Idle /\ \E i \in Items, legs \in BatchInputs : CommitPosition(i, legs)
  \/ WriteRecords
  \/ RecordsFail

RecordSpec == Init /\ [][RecordNext]_vars

\* two items with a category each, the categories under one name
TwoItems == {"X", "Y"}

ItemNext ==
  \/ Respond
  \/ Idle /\ \E h \in Households, p \in {NoParent} \cup CatIds : CreateCategory(h, "a", p)
  \/ Idle /\ \E i \in TwoItems, c \in {"A", NONE}, q \in 1..MaxQty,
                cat \in {NoParent} \cup CatIds : CreateItemIn(i, c, q, cat)
  \/ Idle /\ \E i \in TwoItems, legs \in TransferInputs : UpdateItemPosition(i, legs)
  \/ Idle /\ \E h \in Households, id \in CatIds : DeleteCategory(h, id)
  \/ Idle /\ \E i \in TwoItems : DeleteItem(i)

ItemSpec == Init /\ [][ItemNext]_vars

WalkInit ==
  /\ items = {}
  /\ itemCategory = <<>>
  /\ ledger = EmptyBag
  /\ txns = [t \in Txns |-> NoTxn]
  /\ categories \in Stores
  /\ \E id \in DOMAIN categories, with_self \in BOOLEAN : lastOp = WalkStart(id, with_self)

WalkNext == Descend \/ Return

WalkSpec == WalkInit /\ [][WalkNext]_vars /\ WF_vars(WalkNext)

NameInputs == {Absent} \cup {Given(n) : n \in RawNames \cup {BlankName}}
ParentInputs == {Absent} \cup {Given(p) : p \in {NoParent} \cup CatIds}

CategoryNext ==
  \/ Respond
  \/ Idle /\ \E h \in Households, n \in RawNames, p \in {NoParent} \cup CatIds :
               CreateCategory(h, n, p)
  \/ Idle /\ \E h \in Households, id \in CatIds, n \in NameInputs, p \in ParentInputs :
               UpdateCategory(h, id, n, p)
  \/ Idle /\ \E h \in Households, id \in CatIds : DeleteCategory(h, id)

CategorySpec == Init /\ [][CategoryNext]_vars

\* the category requests with create_category also given a name of blanks
\* only
BlankNames == {"a", BlankName}

BlankNameNext ==
  \/ Respond
  \/ Idle /\ \E h \in Households, n \in BlankNames, p \in {NoParent} \cup CatIds :
               CreateCategory(h, n, p)
  \/ Idle /\ \E h \in Households, id \in CatIds, n \in NameInputs, p \in ParentInputs :
               UpdateCategory(h, id, n, p)
  \/ Idle /\ \E h \in Households, id \in CatIds : DeleteCategory(h, id)

BlankNameSpec == Init /\ [][BlankNameNext]_vars

\* the category requests of two households, with two names
TwoHouseholds == {"H1", "H2"}
TwoNames == {"a", "b"}

HouseholdNext ==
  \/ Respond
  \/ Idle /\ \E h \in TwoHouseholds, n \in TwoNames, p \in {NoParent} \cup CatIds :
               CreateCategory(h, n, p)
  \/ Idle /\ \E h \in TwoHouseholds, id \in CatIds, n \in {Absent, Given("b")},
                p \in ParentInputs :
               UpdateCategory(h, id, n, p)
  \/ Idle /\ \E h \in TwoHouseholds, id \in CatIds : DeleteCategory(h, id)

HouseholdSpec == Init /\ [][HouseholdNext]_vars

ReparentNext ==
  \/ Respond
  \/ Idle /\ \E h \in Households, n \in TwoNames, p \in {NoParent} \cup CatIds :
               CreateCategory(h, n, p)
  \/ Idle /\ \E t \in Txns, h \in Households, id \in CatIds, p \in CatIds :
               BeginReparent(t, h, id, p)
  \/ \E t \in Txns : CommitReparent(t)
  \/ Settle

ReparentSpec == Init /\ [][ReparentNext]_vars

\* ======================================================= ledger claims
IsPosition == lastOp.op = "position"

AllTransfers(legs) == \A k \in 1..Len(legs) : ~legs[k].is_delete

\* C1: a successful update_item_position call whose legs are all real
\* transfers (is_delete = false) leaves the item's total quantity, summed
\* over every location and the unassigned one, as it was before the call.
C1_Conservation ==
  (IsPosition /\ lastOp.result = "ok" /\ AllTransfers(lastOp.legs))
    => totalQuantity(ledger, lastOp.item) = totalQuantity(lastOp.before, lastOp.item)

\* C2: no ledger row ever holds a negative quantity.
C2_NonNegative == \A r \in BagToSet(ledger) : r.qty >= 0

\* a transfer leg whose source row, in the ledger the call starts from, is
\* absent or holds less than the leg asks for
SourceShort(db, i, leg) ==
  /\ ~leg.is_delete
  /\ \/ CountAt(db, i, leg.old) = 0
     \/ CountAt(db, i, leg.old) = 1 /\ TheRow(db, i, leg.old).qty < leg.quantity

ChainBatch(op) ==
  /\ op.op = "position"
  /\ Len(op.legs) = 2
  /\ AllTransfers(op.legs)
  /\ {op.legs[1].old, op.legs[1].new, op.legs[2].new} = Locs
  /\ op.legs[1].new = op.legs[2].old
  /\ op.legs[1].quantity = op.legs[2].quantity
  /\ op.before = OneBag(Row(op.item, op.legs[1].old, op.legs[1].quantity))

\* C4: legs see the ledger as left by the earlier legs of the batch: from
\* {a: n} the batch [(a -> b, n), (b -> c, n)] succeeds and leaves {c: n}.
C4_LegsSeeEarlierLegs ==
  ChainBatch(lastOp)
    => /\ lastOp.result = "ok"
       /\ ledger = OneBag(Row(lastOp.item, lastOp.legs[2].new, lastOp.legs[2].quantity))

\* C5: a batch that fails on an unknown cabinet, a missing source row or an
\* insufficient quantity, at whatever leg, leaves the ledger as it was.
C5_BatchAtomic ==
  (IsPosition /\ lastOp.result \in {"no_cabinet", "no_source", "insufficient"})
    => ledger = lastOp.before

C5_Witness ==
  /\ IsPosition
  /\ lastOp.result \in {"no_cabinet", "no_source", "insufficient"}
  /\ Len(lastOp.legs) = MaxLegs
  /\ ValidateLeg(lastOp.before, lastOp.item, lastOp.legs[1]) = "ok"
  /\ ~lastOp.legs[1].is_delete
  /\ CabinetsVerified(<<lastOp.legs[1]>>)

\* C11: no ledger row holds quantity 0: an operation that leaves an
\* (item, location) pair with nothing keeps no row for it.
C11_NoZeroRow == \A r \in BagToSet(ledger) : r.qty # 0

\* one delete-only leg with an amount, on a source row that holds at least
\* that amount
DeleteWithAmount(op) ==
  /\ op.op = "position" /\ op.result = "ok"
  /\ Len(op.legs) = 1
  /\ op.legs[1].is_delete /\ op.legs[1].quantity >= 1
  /\ CountAt(op.before, op.item, op.legs[1].old) = 1
  /\ getQuantity(op.before, op.item, op.legs[1].old) >= op.legs[1].quantity

\* C12: a delete-only leg with amount n on a source holding q >= n leaves
\* q - n at the source, lowers the item's total by exactly n and leaves
\* every other ledger entry unchanged.
C12_DeleteLowersByAmount ==
  DeleteWithAmount(lastOp) =>
    /\ getQuantity(ledger, lastOp.item, lastOp.legs[1].old)
         = getQuantity(lastOp.before, lastOp.item, lastOp.legs[1].old)
             - lastOp.legs[1].quantity
    /\ totalQuantity(ledger, lastOp.item)
         = totalQuantity(lastOp.before, lastOp.item) - lastOp.legs[1].quantity
    /\ \A c \in Locs \ {lastOp.legs[1].old} :
         getQuantity(ledger, lastOp.item, c) = getQuantity(lastOp.before, lastOp.item, c)

\* the ledger after the two transfers ran one after the other, a first
SerialRows(db, its, i, a, b) ==
  PositionOutcome(PositionOutcome(db, its, i, a).rows, its, i, b).rows

\* both of two transfers that read the ledger before either committed
\* have committed, and they draw from the same source location
BothCommitted ==
  /\ \A t \in Txns : txns[t].state = "done" /\ txns[t].result = "ok"
  /\ \A t \in Txns : ~txns[t].legs[1].is_delete
  /\ txns["T1"].legs[1].old = txns["T2"].legs[1].old

\* C13: two concurrent transfers that draw from the same source entry
\* leave the ledger that running them one after the other, in one of the
\* two orders, leaves: no decrement is lost, the source is not negative,
\* the total is conserved.
C13_Serializable ==
  BothCommitted =>
    /\ \/ ledger = SerialRows(txns["T1"].base, items, txns["T1"].item,
                              txns["T1"].legs, txns["T2"].legs)
       \/ ledger = SerialRows(txns["T1"].base, items, txns["T1"].item,
                              txns["T2"].legs, txns["T1"].legs)
    /\ totalQuantity(ledger, txns["T1"].item)
         = totalQuantity(txns["T1"].base, txns["T1"].item)
    /\ \A r \in BagToSet(ledger) : r.qty >= 0

\* a transfer leg whose source and destination are the same location (the
\* same cabinet, or both unassigned)
SameLocation(leg) == ~leg.is_delete /\ leg.old = leg.new

\* C14: a call with a non-delete leg whose source and destination are the
\* same location is rejected as a bad request, and the ledger is unchanged.
C14_SameLocationRejected ==
  (IsPosition /\ \E k \in 1..Len(lastOp.legs) : SameLocation(lastOp.legs[k]))
    => (lastOp.result = "bad_request" /\ ledger = lastOp.before)

C14_Witness ==
  /\ IsPosition
  /\ lastOp.result = "bad_request"
  /\ Len(lastOp.legs) = MaxLegs
  /\ ~SameLocation(lastOp.legs[1])
  /\ SameLocation(lastOp.legs[MaxLegs])
  /\ lastOp.legs[MaxLegs].old = NONE
  /\ ~SourceShort(lastOp.before, lastOp.item, lastOp.legs[1])
  /\ ~SourceShort(lastOp.before, lastOp.item, lastOp.legs[MaxLegs])

\* a leg whose source or destination is a cabinet id the household has no
\* cabinet for
UnknownLocation(leg) ==
  \/ leg.old # NONE /\ leg.old \notin Cabinets
  \/ leg.new # NONE /\ leg.new \notin Cabinets

\* C15: a call with a leg that names a cabinet that does not exist, as the
\* source or as the destination, fails, and the ledger is unchanged.
C15_UnknownCabinetRejected ==
  (IsPosition /\ \E k \in 1..Len(lastOp.legs) : UnknownLocation(lastOp.legs[k]))
    => (lastOp.result # "ok" /\ ledger = lastOp.before)

C15_Witness ==
  /\ IsPosition
  /\ lastOp.result = "no_cabinet"
  /\ Len(lastOp.legs) = MaxLegs
  /\ ~UnknownLocation(lastOp.legs[1])
  /\ lastOp.legs[MaxLegs].new = UnknownCabinet
  /\ ~SourceShort(lastOp.before, lastOp.item, lastOp.legs[1])
  /\ ~SourceShort(lastOp.before, lastOp.item, lastOp.legs[MaxLegs])

\* C16: the ledger holds at most one row per (item, location), the
\* unassigned location counting as one location.
C16_OneRowPerLocation ==
  \A i \in Items : \A c \in Locs : CountAt(ledger, i, c) <= 1

\* the request being served is a transfer or a set-quantity whose change of
\* the ledger is committed
MutationCommitted ==
  /\ lastOp.op \in {"position", "quantity"}
  /\ ledger # lastOp.before

\* C22: there is no state in which the ledger change of a transfer or a
\* set-quantity is committed and the records the call writes for it are
\* not.
C22_RecordsWithMutation ==
  (MutationCommitted /\ lastOp.pending # <<>>) => lastOp.records = lastOp.pending

ItemDeleted == lastOp.op = "item_delete" /\ lastOp.result = "ok"

\* C24: after a successful item delete the ledger has no row of that item,
\* at a cabinet or unassigned, and the rows of every other item are the
\* ones it had before.
C24_ItemDeleteCascades ==
  ItemDeleted =>
    /\ \A r \in BagToSet(ledger) : r.item # lastOp.item
    /\ \A r \in BagToSet(lastOp.before) :
         r.item # lastOp.item
           => r \in BagToSet(ledger) /\ CopiesIn(r, ledger) = CopiesIn(r, lastOp.before)

\* the deleted item had a row in a cabinet and an unassigned one, and the
\* other item has rows
C24_Witness ==
  /\ ItemDeleted
  /\ CountAt(lastOp.before, lastOp.item, NONE) > 0
  /\ \E c \in Cabinets : CountAt(lastOp.before, lastOp.item, c) > 0
  /\ ledger # EmptyBag

\* C27: a delete of a cabinet of the household succeeds, leaves no ledger
\* row at that cabinet, and leaves the total quantity of every item as it
\* was (the rows of the cabinet having become unassigned rows).
C27_CabinetDeleteUnassigns ==
  (lastOp.op = "cabinet_delete" /\ lastOp.cabinet_id \in Cabinets)
    => /\ lastOp.result = "ok"
       /\ \A i \in items :
            /\ CountAt(ledger, i, lastOp.cabinet_id) = 0
            /\ totalQuantity(ledger, i) = totalQuantity(lastOp.before, i)

\* an entry of a set-quantity request whose cabinet_id is not a cabinet of
\* the household
Skipped(e) == e.cabinet_id # NONE /\ e.cabinet_id \notin Cabinets

\* the entries of a request that are not skipped, in order
Applied(entries) == SelectSeq(entries, LAMBDA e : ~Skipped(e))

\* C28: a set-quantity request that has an entry for an unknown cabinet
\* next to other entries succeeds; the ledger has no row for the unknown
\* cabinet and is the one the other entries alone produce, and no record
\* names the unknown cabinet.
C28_UnknownEntrySkipped ==
  (lastOp.op = "quantity" /\ lastOp.item \in items
     /\ QuantityErrorCheck(lastOp.entries)
     /\ (\E k \in 1..Len(lastOp.entries) : Skipped(lastOp.entries[k]))
     /\ lastOp.result # "integrity_error")
    => /\ lastOp.result = "ok"
       /\ \A r \in BagToSet(ledger) : r.cab \in Locs
       /\ \E dict \in QuantitiesDicts(lastOp.before, lastOp.item) :
            /\ ledger = Flush(lastOp.before, lastOp.item,
                              SetEntries(lastOp.item, NewSession(dict),
                                         Applied(lastOp.entries), 1))
            /\ lastOp.records = QuantityRecords(dict, Applied(lastOp.entries), 1)

\* a request of an unknown entry and a known one that changed the ledger
C28_Witness ==
  /\ lastOp.op = "quantity" /\ lastOp.result = "ok"
  /\ Len(lastOp.entries) = MaxEntries
  /\ Skipped(lastOp.entries[1]) /\ lastOp.entries[1].quantity > 0
  /\ ~Skipped(lastOp.entries[MaxEntries])
  /\ ledger # lastOp.before
  /\ Len(lastOp.records) = 1

\* a delete-only leg whose source location holds no row of the item
DeleteOfNothing(db, i, leg) == leg.is_delete /\ QueryOne(db, i, leg.old) = "none"

\* the request without its k-th leg
WithoutLeg(legs, k) == SubSeq(legs, 1, k - 1) \o SubSeq(legs, k + 1, Len(legs))

\* C29: in a call that passes the request check, on an existing item and with
\* known cabinets, a delete-only leg whose source row does not exist does not
\* fail: alone, the call succeeds and the ledger is unchanged; next to other
\* legs, the call ends as it would without the leg; and a successful call
\* writes the position record of that leg.
C29_DeleteOfNothingSucceeds ==
  (IsPosition /\ lastOp.item \in items
     /\ PositionErrorCheck(lastOp.legs) /\ CabinetsVerified(lastOp.legs))
    => \A k \in 1..Len(lastOp.legs) :
         DeleteOfNothing(lastOp.before, lastOp.item, lastOp.legs[k])
           => /\ IF Len(lastOp.legs) = 1
                 THEN lastOp.result = "ok" /\ ledger = lastOp.before
                 ELSE LET rest == PositionOutcome(lastOp.before, items, lastOp.item,
                                                  WithoutLeg(lastOp.legs, k))
                      IN lastOp.result = rest.result /\ ledger = rest.rows
              /\ lastOp.result = "ok"
                   => /\ Len(lastOp.records) = Len(lastOp.legs)
                      /\ lastOp.records[k] = PositionRecord(lastOp.legs[k])

C29_Witness ==
  /\ IsPosition
  /\ lastOp.result = "ok"
  /\ Len(lastOp.legs) = 1
  /\ lastOp.legs[1].old = "A"
  /\ DeleteOfNothing(lastOp.before, lastOp.item, lastOp.legs[1])
  /\ lastOp.before # EmptyBag
  /\ ledger = lastOp.before
  /\ lastOp.records = <<[kind |-> "position", old |-> "A", new |-> NONE, count |-> 0]>>

\* ===================================================== category claims
IsCategoryOp(name) == lastOp.op = name

\* the answers that reject a category request with an error
Rejections == {"bad_request", "not_found", "parent_not_found", "self_parent",
               "descendant_parent", "level_exceeded", "duplicate_name",
               "multiple_rows", "empty_response"}

Rejected(op) == op.result \in Rejections

\* the number of rows on the parent chain from id up to its root
RECURSIVE ChainLength(_, _, _)
ChainLength(cats, id, n) ==
  IF n = 0 \/ id \notin DOMAIN cats THEN 0
  ELSE IF cats[id].parent = NoParent THEN 1
  ELSE 1 + ChainLength(cats, cats[id].parent, n - 1)

\* the level of a row; MaxCats + 1 when its chain does not end at a root
Level(cats, id) ==
  LET n == ChainLength(cats, id, MaxCats + 1)
  IN IF get_level_names(cats, id).ok /\ Len(get_level_names(cats, id).names) = n
     THEN n ELSE MaxCats + 1

Subtree(cats, id) == {id} \cup Below(cats, {id}, Cardinality(DOMAIN cats))

\* C6: in every reachable state every category has a level between 1 and
\* 3 (the length of its ancestor chain), and has level 1 exactly when it
\* has no parent.
C6_LevelInvariant ==
  \A c \in DOMAIN categories :
    /\ Level(categories, c) \in 1..MAX_LEVEL_NUM
    /\ Level(categories, c) = 1 <=> categories[c].parent = NoParent

\* a successful reparent has just put a subtree's leaf on level 3
C6_Witness ==
  /\ IsCategoryOp("category_update") /\ lastOp.result = "ok"
  /\ lastOp.parent # Absent /\ lastOp.parent[1] # NoParent
  /\ Children(categories, lastOp.id) # {}
  /\ \E c \in DOMAIN categories : Level(categories, c) = MAX_LEVEL_NUM

\* the request reparents an existing category of the household under an
\* existing category outside its subtree
IsReparent(op) ==
  /\ op.op = "category_update"
  /\ op.id \in DOMAIN op.before /\ op.before[op.id].household = op.household
  /\ op.parent # Absent /\ op.parent[1] \in DOMAIN op.before

\* the levels some row of the moved subtree would get under the new parent
TooDeep(op) ==
  \E c \in Subtree(op.before, op.id) :
    Level(op.before, op.parent[1]) + 1 + Level(op.before, c) - Level(op.before, op.id)
      > MAX_LEVEL_NUM

\* C7: a reparent that would place the category or one of its
\* descendants deeper than level 3 is rejected and leaves every category
\* as it was: parents, levels, and the name even when the request carries
\* a rename.
C7_TooDeepRejected ==
  (IsReparent(lastOp) /\ lastOp.parent[1] \notin Subtree(lastOp.before, lastOp.id)
     /\ TooDeep(lastOp))
    => Rejected(lastOp) /\ categories = lastOp.before

\* a too-deep reparent that also carries a new name was refused for its
\* depth
C7_Witness ==
  /\ IsReparent(lastOp) /\ TooDeep(lastOp)
  /\ lastOp.result = "level_exceeded"
  /\ lastOp.name # Absent /\ Strip(lastOp.name[1]) # lastOp.before[lastOp.id].name
  /\ Children(lastOp.before, lastOp.id) # {}

\* no category is reached from itself by following parent_id
Acyclic(cats) == \A c \in DOMAIN cats : c \notin Below(cats, {c}, Cardinality(DOMAIN cats))

\* C8: a reparent under the category itself or under one of its
\* descendants is rejected and changes nothing, and in every reachable
\* state the parent relation is acyclic.
C8_NoCycle ==
  /\ Acyclic(categories)
  /\ (IsReparent(lastOp) /\ lastOp.parent[1] \in Subtree(lastOp.before, lastOp.id))
       => Rejected(lastOp) /\ categories = lastOp.before

\* a reparent under a grandchild or child was refused by the descendant
\* check
C8_Witness ==
  /\ IsReparent(lastOp)
  /\ lastOp.parent[1] \in Subtree(lastOp.before, lastOp.id) \ {lastOp.id}
  /\ lastOp.result = "descendant_parent"

\* C9: no two categories of one household with the same parent (or both
\* without a parent) have the same name.
C9_SiblingNamesUnique ==
  \A c, d \in DOMAIN categories :
    (c # d /\ categories[c].household = categories[d].household
           /\ categories[c].parent = categories[d].parent)
      => categories[c].name # categories[d].name

\* C10: after a successful delete of category C, C and all its
\* descendants are gone, no remaining category refers to a deleted
\* parent, and every category outside C's subtree is still there with
\* its parent and name unchanged.
C10_CascadeDelete ==
  (IsCategoryOp("category_delete") /\ lastOp.result = "ok") =>
    /\ DOMAIN categories \cap Subtree(lastOp.before, lastOp.id) = {}
    /\ \A c \in DOMAIN categories :
         categories[c].parent = NoParent \/ categories[c].parent \in DOMAIN categories
    /\ \A c \in DOMAIN lastOp.before \ Subtree(lastOp.before, lastOp.id) :
         c \in DOMAIN categories /\ categories[c] = lastOp.before[c]

\* a category with a grandchild was deleted while another category
\* stayed
C10_Witness ==
  /\ IsCategoryOp("category_delete") /\ lastOp.result = "ok"
  /\ \E c \in Subtree(lastOp.before, lastOp.id) :
       c # lastOp.id /\ lastOp.before[c].parent # lastOp.id
  /\ DOMAIN categories # {}

IsUpdate(op) == op.op = "category_update" /\ op.id \in DOMAIN op.before

\* the categories of op.before, other than the one the request names, that
\* sit under parent p in the same household and carry name n
NamesakeUnder(op, p, n) ==
  {c \in DOMAIN op.before \ {op.id} :
     /\ op.before[c].household = op.before[op.id].household
     /\ op.before[c].parent = p
     /\ op.before[c].name = n}

\* a request that only renames, to the name of one of the category's siblings
RenameToSibling(op) ==
  /\ IsUpdate(op)
  /\ op.household = op.before[op.id].household
  /\ op.name # Absent
  /\ op.parent = Absent
  /\ NamesakeUnder(op, op.before[op.id].parent, Strip(op.name[1])) # {}

\* C17: renaming a category to the name of one of its siblings is rejected
\* with the duplicate-name error and the category keeps its name.
C17_RenameDuplicateRejected ==
  RenameToSibling(lastOp)
    => /\ lastOp.result = "duplicate_name"
       /\ lastOp.id \in DOMAIN categories
       /\ categories[lastOp.id].name = lastOp.before[lastOp.id].name

\* a request that moves the category to another place, to the root or under
\* a category it could be put under (in the household, outside its subtree,
\* within the level limit), where a category already carries the name the
\* moved one will have
ReparentOntoNamesake(op) ==
  /\ IsUpdate(op)
  /\ op.household = op.before[op.id].household
  /\ op.parent # Absent
  /\ op.parent[1] # op.before[op.id].parent
  /\ \/ op.parent[1] = NoParent
     \/ /\ IsReparent(op)
        /\ op.before[op.parent[1]].household = op.household
        /\ op.parent[1] \notin Subtree(op.before, op.id)
        /\ ~TooDeep(op)
  /\ op.name # Absent => Strip(op.name[1]) # ""
  /\ NamesakeUnder(op, op.parent[1], NewName(op.before, op.id, op.name)) # {}

\* C18: moving a category, under a new parent or to the root, is rejected
\* for the duplicate name when a category with the same name already sits
\* under the target, and the category keeps its parent.
C18_ReparentDuplicateRejected ==
  ReparentOntoNamesake(lastOp)
    => /\ lastOp.result \in {"duplicate_name", "multiple_rows"}
       /\ lastOp.id \in DOMAIN categories
       /\ categories[lastOp.id].parent = lastOp.before[lastOp.id].parent

\* a create or an update request whose name is empty once trimmed
BlankNameRequest(op) ==
  \/ op.op = "category_create" /\ Strip(op.name) = ""
  \/ op.op = "category_update" /\ op.name # Absent /\ Strip(op.name[1]) = ""

\* C19: a create or a rename whose name is empty or whitespace only is
\* rejected, and the categories are as they were.
C19_BlankNameRejected ==
  BlankNameRequest(lastOp) => (Rejected(lastOp) /\ categories = lastOp.before)

\* the categories of the household that sit under the parent the create
\* request names and carry its name once both names are trimmed
TrimmedNamesakes(op) ==
  {c \in DOMAIN op.before :
     /\ op.before[c].household = op.household
     /\ op.before[c].parent = op.parent
     /\ Strip(op.before[c].name) = Strip(op.name)}

\* C20: a create that gets past the parent and level checks fails with
\* the duplicate-name error exactly when a category of the same household
\* under the same parent has the same name after trimming; a category of
\* that name under another parent does not block it.
C20_CreateDuplicateExactly ==
  (IsCategoryOp("category_create") /\ lastOp.result \in {"ok", "duplicate_name"})
    => (lastOp.result = "duplicate_name" <=> TrimmedNamesakes(lastOp) # {})

\* a create or an update request whose parent_id names a category of
\* another household than the request's
ForeignParent(op) ==
  /\ op.op \in {"category_create", "category_update"}
  /\ LET p == IF op.op = "category_create" THEN op.parent
              ELSE IF op.parent = Absent THEN NoParent ELSE op.parent[1]
     IN p \in DOMAIN op.before /\ op.before[p].household # op.household

\* C21: a create or a reparent whose parent belongs to another household
\* is rejected and changes nothing, and in every reachable state the
\* parent of a category is a category of the same household.
C21_ParentInHousehold ==
  /\ ForeignParent(lastOp) => (Rejected(lastOp) /\ categories = lastOp.before)
  /\ \A c \in DOMAIN categories :
       categories[c].parent # NoParent
         => /\ categories[c].parent \in DOMAIN categories
            /\ categories[categories[c].parent].household = categories[c].household

\* a reparent of an existing category of the household under a category of
\* the other household got past every check of the service and was refused
\* on the re-read
C21_Witness ==
  /\ ForeignParent(lastOp)
  /\ IsUpdate(lastOp)
  /\ lastOp.before[lastOp.id].household = lastOp.household
  /\ lastOp.result = "empty_response"
  /\ \E c \in DOMAIN categories : categories[c].parent # NoParent

\* the step is a successful delete_category
CategoryDeleted == lastOp.op = "none" /\ lastOp'.op = "category_delete" /\ lastOp'.result = "ok"

\* C23: a category delete removes no item: every item that referenced the
\* deleted category or one of its deleted descendants references none
\* afterwards, every other item keeps its reference, and the ledger is
\* unchanged.
C23_ItemsSurviveCategoryDelete ==
  [][CategoryDeleted =>
       /\ items' = items
       /\ ledger' = ledger
       /\ \A i \in items :
            itemCategory'[i] = IF itemCategory[i] \in Subtree(categories, lastOp'.id)
                               THEN NoParent ELSE itemCategory[i]]_vars

\* an item that referenced a descendant of the deleted category references
\* none and has its ledger rows, while the other item still has its category
C23_Witness ==
  /\ IsCategoryOp("category_delete") /\ lastOp.result = "ok"
  /\ \E i \in items, j \in items :
       /\ lastOp.referenced[i] \in Subtree(lastOp.before, lastOp.id) \ {lastOp.id}
       /\ itemCategory[i] = NoParent
       /\ totalQuantity(ledger, i) > 0
       /\ itemCategory[j] # NoParent

\* C25: the descendant enumeration of delete_category and of the reparent
\* check comes to its end and returns the ids on every category store,
\* one with a cycle of parent references included.
C25_EnumerationReturns == <>(lastOp.result = "returned")

\* C26: whatever the interleaving of two concurrent reparent transactions,
\* the committed parent relation is acyclic and every category is on level
\* 3 at most.
C26_ConcurrentReparentSafe ==
  /\ Acyclic(categories)
  /\ \A c \in DOMAIN categories : Level(categories, c) <= MAX_LEVEL_NUM

\* a request that names the parent the category already has and gives no
\* name, or the name the category already carries
SameParentNoRename(op) ==
  /\ IsUpdate(op)
  /\ op.household = op.before[op.id].household
  /\ op.parent # Absent
  /\ op.parent[1] # NoParent
  /\ op.parent[1] = op.before[op.id].parent
  /\ op.name # Absent => Strip(op.name[1]) = op.before[op.id].name

\* C30: an update whose parent_id is the category's current parent and which
\* does not change the name is rejected with the duplicate-name error, and the
\* categories are as they were.
C30_SameParentRejected ==
  SameParentNoRename(lastOp)
    => (lastOp.result = "duplicate_name" /\ categories = lastOp.before)

====
